---- MODULE Spec2Model ----
(***************************************************************************)
(* Model of the agent-browser light CLI client (src/src/cli-light.ts):     *)
(* daemon supervision (isDaemonRunning, ensureDaemon), one transport        *)
(* exchange per request (sendCommand), the batch executor (runBatch) and    *)
(* the single-command path of main.                                         *)
(*                                                                          *)
(* The client is one single-threaded event loop.  A handler runs to         *)
(* completion; the continuation of an `await` is a microtask that runs      *)
(* before any other event is delivered (pc = "resume").  The daemon and     *)
(* the file system are the environment.                                     *)
(***************************************************************************)
EXTENDS Integers, Sequences, FiniteSets, TLC

\* ------------------------------------------------------------------ bounds
MaxBatch == 2      \* longest batch of requests
MaxBuf   == 3      \* most bytes a daemon delivers on one connection
MaxChunk == 2      \* most bytes in one data event
MaxArgs == 2       \* most command-line arguments after the first

\* ------------------------------------------------------- program constants
MaxPolls == 50     \* for (let i = 0; i < 50; i++)
NumCandidates == 3 \* scriptDir/daemon.js, scriptDir/../dist/daemon.js, cwd/dist/daemon.js

\* --------------------------------------------------------------- alphabet
\* Bytes on the wire, abstracted to lexical units:
\*   "T"  the text of one JSON object with "success":true
\*   "F"  the text of one JSON object with "success":false
\*   "x"  bytes that belong to no JSON text
\*   " "  a blank
\*   "\n" the newline delimiter
Chars == {"T", "F", "x", " ", "\n"}
Whitespace == {" ", "\n"}

OldPid == "old"       \* a process the liveness marker may name at start
NewPid == "new"       \* the process spawned by this client
NewPid2 == "new2"     \* the process spawned by a second client
Pids == {OldPid, NewPid}

Ex == 1..MaxBatch  \* exchanges of one client process, in the order started

VARIABLES
  \* environment: file system and processes
  pidFile,     \* PID_FILE: "absent", "junk" (unparsable) or the pid it holds
  sockFile,    \* fs.existsSync(SOCKET_PATH)
  alive,       \* pids of existing processes
  listener,    \* pid of the daemon accepting on SOCKET_PATH, or "none"
  \* client: main / ensureDaemon
  mode,        \* "batch" or "single"
  commands,    \* the encoded requests (their ids), in order
  pc,          \* control location of the client
  i,           \* loop variable of the poll loop
  spawned,     \* number of processes spawned by the client
  \* client: sendCommand, one closure per exchange
  cur,         \* exchange being awaited
  sock,        \* state of the exchange's socket
  listeners,   \* are the socket's event listeners still registered
  buffer,      \* let buffer, of the exchange started last (see OnlyNewestLive)
  resolved,    \* let resolved
  timer,       \* the exchange's 30s timer
  outcome,     \* state of the promise returned by sendCommand
  settles,     \* number of resolve()/reject() calls made
  cleanups,    \* number of cleanup() calls made
  sent,        \* indices of the requests written to the daemon, in order
  wire,        \* bytes the daemon has delivered on the newest connection
  \* client: runBatch / main result
  results,     \* const results
  hasError,    \* let hasError
  report,      \* the aggregate printed by runBatch
  errMsg,      \* message reported by main's catch
  exitCode,    \* argument of process.exit, -1 while running
  \* client: main's argument handling
  args,        \* process.argv.slice(2)
  cmd,         \* const cmd of single-command mode
  \* a second client process of the same session: its ensureDaemon
  pc2,         \* control location of the second client, "off" when absent
  i2,          \* its loop variable
  spawned2,    \* number of processes it spawned
  errMsg2,     \* message of the Error its main caught, "" if none
  exitCode2    \* argument of its process.exit, -1 while running

envVars  == <<pidFile, sockFile, alive, listener>>
mainVars == <<mode, commands, pc, i, spawned>>
exVars   == <<cur, sock, listeners, buffer, resolved, timer, outcome, settles, cleanups, sent, wire>>
outVars  == <<results, hasError, report, errMsg, exitCode>>
cliVars  == <<args, cmd>>
raceVars == <<pc2, i2, spawned2, errMsg2, exitCode2>>
vars     == <<envVars, mainVars, exVars, outVars, cliVars, raceVars>>

\* ------------------------------------------------------------ pure helpers

\* String.prototype.trim over the token alphabet
RECURSIVE TrimLeft(_)
TrimLeft(s) ==
  IF s # <<>> /\ Head(s) \in Whitespace THEN TrimLeft(Tail(s)) ELSE s

RECURSIVE TrimRight(_)
TrimRight(s) ==
  IF s # <<>> /\ s[Len(s)] \in Whitespace
    THEN TrimRight(SubSeq(s, 1, Len(s) - 1))
    ELSE s

Trim(s) == TrimRight(TrimLeft(s))

\* String.prototype.indexOf('\n'), 1-based; 0 when absent (-1 in the source)
IndexOfNewline(s) ==
  IF \E n \in 1..Len(s) : s[n] = "\n"
    THEN CHOOSE n \in 1..Len(s) : s[n] = "\n" /\ \A m \in 1..(n - 1) : s[m] # "\n"
    ELSE 0

NotWhitespace(c) == c \notin Whitespace

\* JSON.parse(text) as Response: surrounding whitespace is insignificant and
\* the text must be exactly one value.  ok = FALSE is the SyntaxError.
JSONParse(s) ==
  LET t == SelectSeq(s, NotWhitespace) IN
  IF t = <<"T">> THEN [ok |-> TRUE, success |-> TRUE]
  ELSE IF t = <<"F">> THEN [ok |-> TRUE, success |-> FALSE]
  ELSE [ok |-> FALSE, success |-> FALSE]

\* interface Response; data is not modelled
Response(id, success, error) == [id |-> id, success |-> success, error |-> error]

\* what the daemon put in a well-formed line; its id is the daemon's choice
DaemonId == 0
DaemonResponse(success) ==
  Response(DaemonId, success, IF success THEN "" ELSE "daemon error")

\* the promise returned by sendCommand
NoResponse  == [id |-> -1, success |-> FALSE, error |-> ""]
Pending     == [kind |-> "pending", resp |-> NoResponse, err |-> ""]
Resolve(r)  == [kind |-> "resolve", resp |-> r, err |-> ""]
Reject(m)   == [kind |-> "reject", resp |-> NoResponse, err |-> m]

Chunks == UNION {[1..n -> Chars] : n \in 1..MaxChunk}

\* parseCommand's id, Math.random().toString(36).slice(2, 10): a fresh token
\* per request, here the request's position
RequestId(k) == k
Batches == {[k \in 1..n |-> [id |-> RequestId(k)]] : n \in 1..MaxBatch}

\* ------------------------------------------------------- command parsing
\* A string is the sequence of its lexical units.  A string that begins
\* with the characters "--" has the unit "--" first, one that begins with
\* "http" has the unit "http" first, a leading run of digits is one unit,
\* and a blank or a double quote is always a unit of its own.

W(u) == <<u>>
Undefined == W("undefined")    \* an array read past the end
HttpsPrefix == <<"http", "s://">>
Digits == {"3", "500"}
Blank == " "
Quote == "\""

\* String.prototype.startsWith
StartsWith(s, prefix) ==
  /\ Len(s) >= Len(prefix)
  /\ SubSeq(s, 1, Len(prefix)) = prefix

\* Array.prototype.includes
Includes(a, w) == \E n \in 1..Len(a) : a[n] = w

\* a[n - 1] of the source, undefined past the end
At(a, n) == IF n \in 1..Len(a) THEN a[n] ELSE Undefined

\* Array.prototype.slice(n - 1)
SliceFrom(a, n) == IF n > Len(a) THEN <<>> ELSE SubSeq(a, n, Len(a))

\* Array.prototype.join(' ')
RECURSIVE Join(_)
Join(a) ==
  IF a = <<>> THEN <<>>
  ELSE IF Len(a) = 1 THEN a[1]
  ELSE a[1] \o W(Blank) \o Join(Tail(a))

\* parseInt(s, 10): the leading run of digits, NaN without one; the number
\* is kept as its decimal text
ParseInt(s) == IF s # <<>> /\ s[1] \in Digits THEN s[1] ELSE "NaN"

\* /^\d+$/.test(s)
AllDigits(s) == Len(s) = 1 /\ s[1] \in Digits

\* null
Null == [null |-> TRUE]

\* { id, action }
Request(id, action) == [id |-> id, action |-> action]

\* the url of a navigate request: every argument is prefixed
NavigateUrlAlwaysPrefixed(arg) == HttpsPrefix \o arg

\* rest[0]?.startsWith('http') ? rest[0] : `https://${rest[0]}`
NavigateUrl(arg) ==
  IF StartsWith(arg, W("http")) THEN arg ELSE HttpsPrefix \o arg

\* the option loop of the snapshot case, from index n on
RECURSIVE SnapshotOpts(_, _, _)
SnapshotOpts(rest, n, opts) ==
  IF n > Len(rest) THEN opts
  ELSE IF rest[n] \in {W("-i"), <<"--", "interactive">>}
    THEN SnapshotOpts(rest, n + 1, ("interactive" :> TRUE) @@ opts)
  ELSE IF rest[n] \in {W("-c"), <<"--", "compact">>}
    THEN SnapshotOpts(rest, n + 1, ("compact" :> TRUE) @@ opts)
  ELSE IF rest[n] \in {<<"--", "depth">>, W("-d")}
    THEN SnapshotOpts(rest, n + 2,
                      ("maxDepth" :> ParseInt(At(rest, n + 1))) @@ opts)
  ELSE IF rest[n] \in {<<"--", "selector">>, W("-s")}
    THEN SnapshotOpts(rest, n + 2, ("selector" :> At(rest, n + 1)) @@ opts)
  ELSE SnapshotOpts(rest, n + 1, opts)

\* parseCommand(parts); id stands for the random token the call draws
parseCommand(parts, id) ==
  IF parts = <<>> THEN Null
  ELSE
    LET command == parts[1]
        rest == Tail(parts)
    IN
      CASE command \in {W("open"), W("goto"), W("navigate")} ->
             ("url" :> NavigateUrl(At(rest, 1))) @@ Request(id, "navigate")
        [] command = W("click") ->
             ("selector" :> At(rest, 1)) @@ Request(id, "click")
        [] command = W("fill") ->
             ("selector" :> At(rest, 1)) @@ ("value" :> Join(SliceFrom(rest, 2)))
               @@ Request(id, "fill")
        [] command = W("type") ->
             ("selector" :> At(rest, 1)) @@ ("text" :> Join(SliceFrom(rest, 2)))
               @@ Request(id, "type")
        [] command = W("hover") ->
             ("selector" :> At(rest, 1)) @@ Request(id, "hover")
        [] command = W("snapshot") ->
             SnapshotOpts(rest, 1, Request(id, "snapshot"))
        [] command = W("screenshot") ->
             ("path" :> At(rest, 1)) @@ Request(id, "screenshot")
        [] command \in {W("close"), W("quit")} ->
             Request(id, "close")
        [] command = W("get") ->
             IF At(rest, 1) = W("text")
               THEN ("selector" :> At(rest, 2)) @@ Request(id, "gettext")
             ELSE IF At(rest, 1) = W("url") THEN Request(id, "url")
             ELSE IF At(rest, 1) = W("title") THEN Request(id, "title")
             ELSE Null
        [] command = W("press") ->
             ("key" :> At(rest, 1)) @@ Request(id, "press")
        [] command = W("wait") ->
             IF AllDigits(At(rest, 1))
               THEN ("timeout" :> ParseInt(At(rest, 1))) @@ Request(id, "wait")
               ELSE ("selector" :> At(rest, 1)) @@ Request(id, "wait")
        [] command = W("back") -> Request(id, "back")
        [] command = W("forward") -> Request(id, "forward")
        [] command = W("reload") -> Request(id, "reload")
        [] command = W("eval") ->
             ("script" :> Join(rest)) @@ Request(id, "evaluate")
        [] OTHER -> Null

\* index of the first double quote of s after position n, 0 if there is none
RECURSIVE NextQuote(_, _)
NextQuote(s, n) ==
  IF n >= Len(s) THEN 0
  ELSE IF s[n + 1] = Quote THEN n + 1
  ELSE NextQuote(s, n + 1)

\* arg.match(/(?:[^\s"]+|"[^"]*")+/g) || []: the matches found from position
\* n on, tok being the match under construction
RECURSIVE Match(_, _, _)
Match(s, n, tok) ==
  LET flush == IF tok = <<>> THEN <<>> ELSE <<tok>> IN
  IF n > Len(s) THEN flush
  ELSE IF s[n] = Blank THEN flush \o Match(s, n + 1, <<>>)
  ELSE IF s[n] = Quote
    THEN IF NextQuote(s, n) # 0
           THEN Match(s, NextQuote(s, n) + 1,
                      tok \o SubSeq(s, n, NextQuote(s, n)))
           ELSE flush \o Match(s, n + 1, <<>>)
  ELSE Match(s, n + 1, Append(tok, s[n]))

\* p.replace(/^"|"$/g, '')
Unquote(p) ==
  LET q == IF p # <<>> /\ p[1] = Quote THEN Tail(p) ELSE p
  IN IF q # <<>> /\ q[Len(q)] = Quote THEN SubSeq(q, 1, Len(q) - 1) ELSE q

\* cleanParts of one command string
cleanParts(arg) ==
  LET parts == Match(arg, 1, <<>>)
  IN [n \in 1..Len(parts) |-> Unquote(parts[n])]

\* the loop of parseBatchCommands from string n on, acc being commands; the
\* random id of a Request is named by its place in commands
RECURSIVE parseBatchLoop(_, _, _)
parseBatchLoop(a, n, acc) ==
  IF n > Len(a) THEN acc
  ELSE
    LET c == parseCommand(cleanParts(a[n]), RequestId(Len(acc) + 1))
    IN parseBatchLoop(a, n + 1, IF c # Null THEN Append(acc, c) ELSE acc)

\* variant of parseBatchCommands: it returns at the first string that fails
\* to encode
parseBatchCommandsStopsAtUnknown(a) ==
  LET unknown == {n \in 1..Len(a) : parseCommand(cleanParts(a[n]), 0) = Null}
      first == CHOOSE n \in unknown : \A m \in unknown : n <= m
  IN parseBatchLoop(IF unknown = {} THEN a ELSE SubSeq(a, 1, first - 1),
                    1, <<>>)

\* parseBatchCommands(args)
parseBatchCommands(a) == parseBatchLoop(a, 1, <<>>)

\* const json
json(a) == Includes(a, <<"--", "json">>)

\* const cleanArgs
cleanArgs(a) == SelectSeq(a, LAMBDA w : ~StartsWith(w, W("--")))

\* the help condition of main
WantsHelp(a) ==
  \/ cleanArgs(a) = <<>>
  \/ Includes(a, <<"--", "help">>)
  \/ Includes(a, W("-h"))

\* const batchArgs
batchArgs(a) == Tail(cleanArgs(a))


\* --------------------------------------------------------------- Init

Init ==
  /\ pidFile \in {"absent", "junk", OldPid}
  /\ sockFile \in BOOLEAN
  /\ alive \in {{}, {OldPid}}
  /\ listener = IF OldPid \in alive THEN OldPid ELSE "none"
  /\ listener # "none" => sockFile
  /\ mode \in {"batch", "single"}
  /\ commands \in Batches
  /\ mode = "single" => Len(commands) = 1
  /\ pc = "ensure"
  /\ i = 0
  /\ spawned = 0
  /\ cur = 0
  /\ sock = [k \in Ex |-> "none"]
  /\ listeners = [k \in Ex |-> FALSE]
  /\ buffer = <<>>
  /\ resolved = [k \in Ex |-> FALSE]
  /\ timer = [k \in Ex |-> "unset"]
  /\ outcome = [k \in Ex |-> Pending]
  /\ settles = [k \in Ex |-> 0]
  /\ cleanups = [k \in Ex |-> 0]
  /\ sent = <<>>
  /\ wire = <<>>
  /\ results = <<>>
  /\ hasError = FALSE
  /\ report = [success |-> FALSE, completed |-> -1, total |-> -1]
  /\ errMsg = ""
  /\ exitCode = -1
  /\ args = <<>>
  /\ cmd = Null
  /\ pc2 = "off"
  /\ i2 = 0
  /\ spawned2 = 0
  /\ errMsg2 = ""
  /\ exitCode2 = -1

\* ------------------------------------------------------ daemon supervision

\* variant of isDaemonRunning: the marker is parsed but the process is not
\* probed
isDaemonRunningNoProbe ==
  /\ pidFile # "absent"
  /\ pidFile # "junk"

\* isDaemonRunning(): the marker exists, parses, and process.kill(pid, 0)
\* does not throw
isDaemonRunning ==
  /\ pidFile # "absent"
  /\ pidFile # "junk"
  /\ pidFile \in alive

\* variant of DaemonReady: the endpoint test negated
DaemonReadyNegatedEndpoint == isDaemonRunning /\ ~sockFile

\* the ready test of ensureDaemon
DaemonReady == isDaemonRunning /\ sockFile

\* the daemonPath the three existsSync tests leave when the candidate
\* locations in c exist; 0 when the last test fails
daemonPath(c) ==
  IF 1 \in c THEN 1
  ELSE IF 2 \in c THEN 2
  ELSE IF 3 \in c THEN 3
  ELSE 0

\* variant of MainCatch: the error is recorded but main carries on
MainCatchCarriesOn(message) ==
  /\ errMsg' = message
  /\ exitCode' = exitCode
  /\ pc' = "run"

\* main's catch around ensureDaemon / sendCommand / runBatch
MainCatch(message) ==
  /\ errMsg' = message
  /\ exitCode' = 1
  /\ pc' = "exit"

\* ensureDaemon, the ready test succeeding: return
EnsureReady ==
  /\ pc = "ensure"
  /\ DaemonReady
  /\ pc' = "run"
  /\ UNCHANGED <<envVars, mode, commands, i, spawned, exVars, outVars>>
  /\ UNCHANGED <<cliVars, raceVars>>

\* ensureDaemon, entry point missing: throw
EnsureNotFound ==
  /\ pc = "ensure"
  /\ ~DaemonReady
  /\ \E c \in SUBSET (1..NumCandidates) : daemonPath(c) = 0
  /\ MainCatch("Daemon not found")
  /\ UNCHANGED <<envVars, mode, commands, i, spawned, exVars, results, hasError, report>>
  /\ UNCHANGED <<cliVars, raceVars>>

\* ensureDaemon, entry point located: spawn it detached, enter the poll loop
EnsureSpawn ==
  /\ pc = "ensure"
  /\ ~DaemonReady
  /\ \E c \in SUBSET (1..NumCandidates) : daemonPath(c) # 0
  /\ alive' = alive \cup {NewPid}
  /\ spawned' = spawned + 1
  /\ i' = 0
  /\ pc' = "poll"
  /\ UNCHANGED <<pidFile, sockFile, listener, mode, commands, exVars, outVars>>
  /\ UNCHANGED <<cliVars, raceVars>>

\* ensureDaemon, a turn of the poll loop that finds the endpoint: return
\* (the loop variable goes out of scope)
EnsurePollFound ==
  /\ pc = "poll"
  /\ i < MaxPolls
  /\ sockFile
  /\ pc' = "run"
  /\ i' = 0
  /\ UNCHANGED <<envVars, mode, commands, spawned, exVars, outVars>>
  /\ UNCHANGED <<cliVars, raceVars>>

\* variant of EnsurePollSleep: the loop test is i <= 50
EnsurePollSleepOffByOne ==
  /\ pc = "poll"
  /\ i <= MaxPolls
  /\ ~sockFile
  /\ i' = i + 1
  /\ UNCHANGED <<envVars, mode, commands, pc, spawned, exVars, outVars>>
  /\ UNCHANGED <<cliVars, raceVars>>

\* ensureDaemon, a turn of the poll loop that does not: sleep 100ms
EnsurePollSleep ==
  /\ pc = "poll"
  /\ i < MaxPolls
  /\ ~sockFile
  /\ i' = i + 1
  /\ UNCHANGED <<envVars, mode, commands, pc, spawned, exVars, outVars>>
  /\ UNCHANGED <<cliVars, raceVars>>

\* ensureDaemon, the loop ran out: throw
EnsurePollFailed ==
  /\ pc = "poll"
  /\ ~(i < MaxPolls)
  /\ MainCatch("Failed to start daemon")
  /\ i' = 0
  /\ UNCHANGED <<envVars, mode, commands, spawned, exVars, results, hasError, report>>
  /\ UNCHANGED <<cliVars, raceVars>>

\* ------------------------------------------------------------ environment

\* the spawned daemon binds the endpoint and writes its liveness marker
DaemonListen ==
  /\ pc # "exit"
  /\ NewPid \in alive
  /\ listener = "none"
  /\ listener' = NewPid
  /\ sockFile' = TRUE
  /\ pidFile' = NewPid
  /\ UNCHANGED <<alive, mainVars, exVars, outVars>>
  /\ UNCHANGED <<cliVars, raceVars>>

\* a process dies; the files of a daemon stay behind
DaemonDie ==
  /\ pc # "exit"
  /\ \E p \in alive :
       /\ alive' = alive \ {p}
       /\ listener' = IF listener = p THEN "none" ELSE listener
  /\ UNCHANGED <<pidFile, sockFile, mainVars, exVars, outVars>>
  /\ UNCHANGED <<cliVars, raceVars>>

\* ------------------------------------------------- sendCommand (transport)

\* variant of sendCommand: the promise is not awaited, so the loop goes on
\* to open the connection of the next request as well
sendCommandNotAwaited(k) ==
  /\ cur' = k
  /\ sock' = [j \in Ex |-> IF j \in {k, k + 1} /\ j <= Len(commands)
                              THEN "connecting" ELSE sock[j]]
  /\ listeners' = [j \in Ex |-> IF j \in {k, k + 1} /\ j <= Len(commands)
                                   THEN TRUE ELSE listeners[j]]
  /\ buffer' = <<>>
  /\ resolved' = [resolved EXCEPT ![k] = FALSE]
  /\ timer' = [j \in Ex |-> IF j \in {k, k + 1} /\ j <= Len(commands)
                               THEN "armed" ELSE timer[j]]
  /\ wire' = <<>>
  /\ UNCHANGED <<outcome, settles, cleanups, sent>>

\* the synchronous part of sendCommand(commands[k]): buffer = '', resolved =
\* false, net.createConnection, the four listeners, setTimeout(.., 30000)
sendCommand(k) ==
  /\ cur' = k
  /\ sock' = [sock EXCEPT ![k] = "connecting"]
  /\ listeners' = [listeners EXCEPT ![k] = TRUE]
  /\ buffer' = <<>>
  /\ resolved' = [resolved EXCEPT ![k] = FALSE]
  /\ timer' = [timer EXCEPT ![k] = "armed"]
  /\ wire' = <<>>
  /\ UNCHANGED <<outcome, settles, cleanups, sent>>

\* cleanup(): socket.removeAllListeners(); socket.destroy()
cleanup(k) ==
  /\ listeners' = [listeners EXCEPT ![k] = FALSE]
  /\ sock' = [sock EXCEPT ![k] = IF @ = "closed" THEN "closed" ELSE "destroyed"]
  /\ cleanups' = [cleanups EXCEPT ![k] = @ + 1]

\* a handler that does not call cleanup()
NoCleanup == UNCHANGED <<listeners, cleanups>>

\* resolve(..) / reject(..): the first call settles the promise and queues
\* the continuation of the caller's await; a later call changes nothing
Settle(k, o) ==
  /\ settles' = [settles EXCEPT ![k] = @ + 1]
  /\ outcome' = [outcome EXCEPT ![k] = IF @.kind = "pending" THEN o ELSE @]
  /\ pc' = IF outcome[k].kind = "pending" /\ k = cur THEN "resume" ELSE pc

\* a handler that calls neither resolve nor reject
NoSettle == UNCHANGED <<settles, outcome, pc>>

\* Only the socket of the exchange started last can deliver data or close:
\* runBatch starts an exchange after the one before it has settled, and every
\* settling path leaves the socket closed or destroyed.  The buffers of the
\* earlier closures are therefore never read again, and the model keeps the
\* buffer of the newest closure only.
OnlyNewestLive == \A k \in Ex : sock[k] \in {"connecting", "open"} => k = cur

\* events are delivered only while the client sits in the event loop
Idle == pc = "await"

\* socket.on('connect'): write the request
OnConnect(k) ==
  /\ Idle
  /\ sock[k] = "connecting" /\ listeners[k]
  /\ listener # "none"
  /\ sock' = [sock EXCEPT ![k] = "open"]
  /\ sent' = Append(sent, k)
  /\ UNCHANGED <<cur, listeners, buffer, resolved, timer, outcome, settles, cleanups, wire>>
  /\ UNCHANGED <<envVars, mainVars, outVars>>
  /\ UNCHANGED <<cliVars, raceVars>>

\* the data handler resolves when the buffer holds a newline and the
\* exchange is unresolved
DataResolves(buf, res) == IndexOfNewline(buf) # 0 /\ ~res

\* the text the data handler hands to JSON.parse: buffer.substring(0, idx)
FirstLine(buf) == SubSeq(buf, 1, IndexOfNewline(buf) - 1)

\* variant of Accumulate: the chunk replaces the buffer
AccumulateOverwrites(buf, chunk) == chunk

\* buffer += data.toString()
Accumulate(buf, chunk) == buf \o chunk

\* socket.on('data')
OnData(k, chunk) ==
  /\ Idle
  /\ sock[k] = "open" /\ listeners[k]
  /\ Len(wire) + Len(chunk) <= MaxBuf
  /\ wire' = wire \o chunk
  /\ LET buf == Accumulate(buffer, chunk)
         parsed == JSONParse(FirstLine(buf))
     IN /\ buffer' = buf
        /\ IF DataResolves(buf, resolved[k])
             THEN /\ resolved' = [resolved EXCEPT ![k] = TRUE]
                  /\ cleanup(k)
                  /\ IF parsed.ok
                       THEN Settle(k, Resolve(DaemonResponse(parsed.success)))
                       ELSE Settle(k, Reject("Invalid JSON response"))
             ELSE /\ UNCHANGED <<resolved, sock>>
                  /\ NoCleanup
                  /\ NoSettle
  /\ UNCHANGED <<cur, timer, sent>>
  /\ UNCHANGED <<envVars, mode, commands, i, spawned, outVars>>
  /\ UNCHANGED <<cliVars, raceVars>>

\* socket.on('error')
OnError(k) ==
  /\ Idle
  /\ sock[k] \in {"connecting", "open"} /\ listeners[k]
  /\ IF ~resolved[k]
       THEN /\ resolved' = [resolved EXCEPT ![k] = TRUE]
            /\ cleanup(k)
            /\ Settle(k, Reject("socket error"))
       ELSE /\ sock' = [sock EXCEPT ![k] = "closed"]
            /\ UNCHANGED resolved
            /\ NoCleanup
            /\ NoSettle
  /\ UNCHANGED <<cur, buffer, timer, sent, wire>>
  /\ UNCHANGED <<envVars, mode, commands, i, spawned, outVars>>
  /\ UNCHANGED <<cliVars, raceVars>>

\* the close handler resolves when the exchange is unresolved and the
\* trimmed buffer is not empty
CloseResolves(buf, res) == ~res /\ Trim(buf) # <<>>

\* socket.on('close'): the peer ended the connection
OnClose(k) ==
  /\ Idle
  /\ sock[k] = "open" /\ listeners[k]
  /\ sock' = [sock EXCEPT ![k] = "closed"]
  /\ LET parsed == JSONParse(Trim(buffer))
     IN IF CloseResolves(buffer, resolved[k])
          THEN /\ resolved' = [resolved EXCEPT ![k] = TRUE]
               /\ IF parsed.ok
                    THEN Settle(k, Resolve(DaemonResponse(parsed.success)))
                    ELSE Settle(k, Reject("Connection closed"))
          ELSE /\ UNCHANGED resolved
               /\ NoSettle
  /\ NoCleanup
  /\ UNCHANGED <<cur, buffer, timer, sent, wire>>
  /\ UNCHANGED <<envVars, mode, commands, i, spawned, outVars>>
  /\ UNCHANGED <<cliVars, raceVars>>

\* variants of TimeoutRejects: the guard missing, the guard inverted, the
\* guard testing that the exchange is resolved or not
TimeoutRejectsUnguarded(res) == TRUE
TimeoutRejectsInverted(res) == res
TimeoutRejectsEitherWay(res) == res \in BOOLEAN

\* the timer callback acts when the exchange is unresolved
TimeoutRejects(res) == ~res

\* the callback of setTimeout(.., 30000)
OnTimeout(k) ==
  /\ Idle
  /\ timer[k] = "armed"
  /\ timer' = [timer EXCEPT ![k] = "fired"]
  /\ IF TimeoutRejects(resolved[k])
       THEN /\ resolved' = [resolved EXCEPT ![k] = TRUE]
            /\ cleanup(k)
            /\ Settle(k, Reject("Timeout"))
       ELSE /\ UNCHANGED <<resolved, sock>>
            /\ NoCleanup
            /\ NoSettle
  /\ UNCHANGED <<cur, buffer, sent, wire>>
  /\ UNCHANGED <<envVars, mode, commands, i, spawned, outVars>>
  /\ UNCHANGED <<cliVars, raceVars>>

\* ------------------------------------------------------- runBatch and main

\* runBatch entered after ensureDaemon returned: the first sendCommand
RunBatchStart ==
  /\ pc = "run" /\ mode = "batch"
  /\ results' = <<>>
  /\ hasError' = FALSE
  /\ sendCommand(1)
  /\ pc' = "await"
  /\ UNCHANGED <<envVars, mode, commands, i, spawned, report, errMsg, exitCode>>
  /\ UNCHANGED <<cliVars, raceVars>>

\* variant of BatchEntry: the synthesized entry does not carry the request's id
BatchEntryWithoutId(k, o) ==
  IF o.kind = "resolve"
    THEN o.resp
    ELSE Response(DaemonId, FALSE, o.err)

\* the entry runBatch pushes for a settled exchange: the Response, or the
\* synthesized errorResponse of the catch block
BatchEntry(k, o) ==
  IF o.kind = "resolve"
    THEN o.resp
    ELSE Response(commands[k].id, FALSE, o.err)

\* variant of BatchBreaks: no break after a Response with success = false
BatchBreaksOnThrowOnly(o) == o.kind = "reject"

\* does the loop break after this outcome
BatchBreaks(o) == o.kind = "reject" \/ ~o.resp.success

\* variant of BatchReport: completed taken from the queue, not the results
BatchReportQueueLength(res, err) ==
  [success |-> ~err, completed |-> Len(commands), total |-> Len(commands)]

\* the aggregate runBatch prints
BatchReport(res, err) ==
  [success |-> ~err, completed |-> Len(res), total |-> Len(commands)]

\* runBatch resumed after `await sendCommand(cmd)`: the rest of the loop
\* body, then either the next sendCommand or the report and process.exit
RunBatchResume ==
  /\ pc = "resume" /\ mode = "batch"
  /\ LET o == outcome[cur]
         res == Append(results, BatchEntry(cur, o))
         err == hasError \/ BatchBreaks(o)
     IN /\ results' = res
        /\ hasError' = err
        /\ IF ~BatchBreaks(o) /\ cur < Len(commands)
             THEN /\ sendCommand(cur + 1)
                  /\ pc' = "await"
                  /\ UNCHANGED <<report, exitCode>>
             ELSE /\ report' = BatchReport(res, err)
                  /\ exitCode' = IF err THEN 1 ELSE 0
                  /\ pc' = "exit"
                  /\ UNCHANGED exVars
  /\ UNCHANGED <<envVars, mode, commands, i, spawned, errMsg>>
  /\ UNCHANGED <<cliVars, raceVars>>

\* main, single-command mode, after ensureDaemon returned: sendCommand(cmd)
MainSend ==
  /\ pc = "run" /\ mode = "single"
  /\ sendCommand(1)
  /\ pc' = "await"
  /\ UNCHANGED <<envVars, mode, commands, i, spawned, outVars>>
  /\ UNCHANGED <<cliVars, raceVars>>

\* main resumed after `await sendCommand(cmd)`: print, process.exit
MainResume ==
  /\ pc = "resume" /\ mode = "single"
  /\ LET o == outcome[cur]
     IN IF o.kind = "resolve"
          THEN /\ exitCode' = IF o.resp.success THEN 0 ELSE 1
               /\ pc' = "exit"
               /\ UNCHANGED errMsg
          ELSE MainCatch(o.err)
  /\ UNCHANGED <<envVars, mode, commands, i, spawned, exVars, results, hasError, report>>
  /\ UNCHANGED <<cliVars, raceVars>>

Next ==
  \/ EnsureReady
  \/ EnsureNotFound
  \/ EnsureSpawn
  \/ EnsurePollFound
  \/ EnsurePollSleep
  \/ EnsurePollFailed
  \/ DaemonListen
  \/ DaemonDie
  \/ RunBatchStart
  \/ RunBatchResume
  \/ MainSend
  \/ MainResume
  \/ \E k \in Ex : OnConnect(k)
  \/ \E k \in Ex : \E chunk \in Chunks : OnData(k, chunk)
  \/ \E k \in Ex : OnError(k)
  \/ \E k \in Ex : OnClose(k)
  \/ \E k \in Ex : OnTimeout(k)

Spec == Init /\ [][Next]_vars

\* ------------------------------------------------- main: the arguments

\* what main leaves alone before ensureDaemon
MainOnly ==
  UNCHANGED <<envVars, exVars, raceVars, args, i, spawned,
              results, hasError, report, errMsg>>

\* main: HELP is printed
MainHelp ==
  /\ pc = "main"
  /\ WantsHelp(args)
  /\ pc' = "exit"
  /\ exitCode' = 0
  /\ UNCHANGED <<mode, commands, cmd>>
  /\ MainOnly

\* main: batch without a command string
MainBatchEmpty ==
  /\ pc = "main"
  /\ ~WantsHelp(args)
  /\ cleanArgs(args)[1] = W("batch")
  /\ batchArgs(args) = <<>>
  /\ pc' = "exit"
  /\ exitCode' = 1
  /\ UNCHANGED <<mode, commands, cmd>>
  /\ MainOnly

\* main: batch of which no command string encodes
MainBatchNoValid ==
  /\ pc = "main"
  /\ ~WantsHelp(args)
  /\ cleanArgs(args)[1] = W("batch")
  /\ batchArgs(args) # <<>>
  /\ parseBatchCommands(batchArgs(args)) = <<>>
  /\ pc' = "exit"
  /\ exitCode' = 1
  /\ UNCHANGED <<mode, commands, cmd>>
  /\ MainOnly

\* main: batch mode is entered
MainBatch ==
  /\ pc = "main"
  /\ ~WantsHelp(args)
  /\ cleanArgs(args)[1] = W("batch")
  /\ batchArgs(args) # <<>>
  /\ parseBatchCommands(batchArgs(args)) # <<>>
  /\ mode' = "batch"
  /\ commands' = parseBatchCommands(batchArgs(args))
  /\ pc' = "ensure"
  /\ UNCHANGED <<cmd, exitCode>>
  /\ MainOnly

\* variant of MainUnknown: the unknown command is reported and the exit code
\* is 0
MainUnknownExitsZero ==
  /\ pc = "main"
  /\ ~WantsHelp(args)
  /\ cleanArgs(args)[1] # W("batch")
  /\ parseCommand(cleanArgs(args), RequestId(1)) = Null
  /\ cmd' = Null
  /\ pc' = "exit"
  /\ exitCode' = 0
  /\ UNCHANGED <<mode, commands>>
  /\ MainOnly

\* main: single-command mode, parseCommand returns null
MainUnknown ==
  /\ pc = "main"
  /\ ~WantsHelp(args)
  /\ cleanArgs(args)[1] # W("batch")
  /\ parseCommand(cleanArgs(args), RequestId(1)) = Null
  /\ cmd' = Null
  /\ pc' = "exit"
  /\ exitCode' = 1
  /\ UNCHANGED <<mode, commands>>
  /\ MainOnly

\* main: single-command mode is entered; the one request is also kept as a
\* batch of one, as in Init
MainSingle ==
  /\ pc = "main"
  /\ ~WantsHelp(args)
  /\ cleanArgs(args)[1] # W("batch")
  /\ parseCommand(cleanArgs(args), RequestId(1)) # Null
  /\ cmd' = parseCommand(cleanArgs(args), RequestId(1))
  /\ mode' = "single"
  /\ commands' = <<cmd'>>
  /\ pc' = "ensure"
  /\ UNCHANGED exitCode
  /\ MainOnly

\* the state in which main starts, but for the session's files and args
Unstarted ==
  /\ mode = "unset"
  /\ commands = <<>>
  /\ cmd = Null
  /\ pc = "main"
  /\ i = 0
  /\ spawned = 0
  /\ cur = 0
  /\ sock = [k \in Ex |-> "none"]
  /\ listeners = [k \in Ex |-> FALSE]
  /\ buffer = <<>>
  /\ resolved = [k \in Ex |-> FALSE]
  /\ timer = [k \in Ex |-> "unset"]
  /\ outcome = [k \in Ex |-> Pending]
  /\ settles = [k \in Ex |-> 0]
  /\ cleanups = [k \in Ex |-> 0]
  /\ sent = <<>>
  /\ wire = <<>>
  /\ results = <<>>
  /\ hasError = FALSE
  /\ report = [success |-> FALSE, completed |-> -1, total |-> -1]
  /\ errMsg = ""
  /\ exitCode = -1
  /\ pc2 = "off"
  /\ i2 = 0
  /\ spawned2 = 0
  /\ errMsg2 = ""
  /\ exitCode2 = -1

SeqUpTo(S, n) == UNION {[1..m -> S] : m \in 0..n}

\* first words of a command line
FirstWords ==
  {W(v) : v \in {"open", "goto", "navigate", "click", "fill", "type", "hover",
                 "snapshot", "screenshot", "close", "quit", "get", "press",
                 "wait", "back", "forward", "reload", "eval", "bogus", "-h"}}
    \cup {<<"--", "json">>}

\* later words of a command line
ArgWords ==
  {W("-i"), <<"--", "interactive">>, W("-c"), <<"--", "compact">>,
   W("-d"), <<"--", "depth">>, W("-s"), <<"--", "selector">>,
   W("3"), <<"3", "px">>, W("#a"), W("example.com"), <<"http", "bin.org">>,
   <<"http", "://", "a.com">>, <<"http", "s://", "a.com">>,
   W("text"), W("title"), <<"--", "json">>, <<"--", "help">>}

\* command strings of a batch
CmdStrings ==
  { <<"open", Blank, "example.com">>,
    <<"snapshot", Blank, "--", "interactive">>,
    <<"fill", Blank, Quote, "#a", Quote, Blank, Quote, "c", Blank, "d", Quote>>,
    <<"get", Blank, Quote, "title">>,
    <<"get">>,
    <<"bogus", Blank, "example.com">>,
    <<"--", "bogus">>,
    <<>> }

\* command lines the parsing is checked on
ParseArgvs ==
  {<<>>}
    \cup {<<v>> \o r : v \in FirstWords, r \in SeqUpTo(ArgWords, MaxArgs)}
    \cup {<<W("batch")>> \o r : r \in SeqUpTo(CmdStrings, MaxArgs)}

\* main on a command line, up to the call of ensureDaemon
InitParse ==
  /\ args \in ParseArgvs
  /\ pidFile = "absent"
  /\ sockFile = FALSE
  /\ alive = {}
  /\ listener = "none"
  /\ Unstarted

NextParse ==
  \/ MainHelp
  \/ MainBatchEmpty
  \/ MainBatchNoValid
  \/ MainBatch
  \/ MainUnknown
  \/ MainSingle

SpecParse == InitParse /\ [][NextParse]_vars

\* command lines of whole invocations
CliArgvs ==
  { <<>>,
    <<W("bogus")>>,
    <<W("open"), W("example.com")>>,
    <<W("snapshot"), <<"--", "json">>>>,
    <<W("batch")>>,
    <<W("batch"), <<"bogus">>>>,
    <<W("batch"), <<"open", Blank, "example.com">>>>,
    <<W("batch"), <<"bogus">>, <<"snapshot">>>>,
    <<W("batch"), <<"snapshot">>, <<"bogus">>>>,
    <<W("batch"), <<"open", Blank, "example.com">>, <<"snapshot">>>> }

\* a whole invocation, from main's first statement to process.exit
InitCli ==
  /\ args \in CliArgvs
  /\ pidFile \in {"absent", "junk", OldPid}
  /\ sockFile \in BOOLEAN
  /\ alive \in {{}, {OldPid}}
  /\ listener = IF OldPid \in alive THEN OldPid ELSE "none"
  /\ listener # "none" => sockFile
  /\ Unstarted

NextCli ==
  \/ MainHelp
  \/ MainBatchEmpty
  \/ MainBatchNoValid
  \/ MainBatch
  \/ MainUnknown
  \/ MainSingle
  \/ Next

SpecCli == InitCli /\ [][NextCli]_vars

\* ------------------------------- a second client of the same session
\* The second client runs the same ensureDaemon on the same PID_FILE and
\* SOCKET_PATH; its loop variable, its counters and its catch are its own.

Client1Only == UNCHANGED <<mainVars, exVars, outVars, cliVars>>

\* main's catch in the second client
MainCatch2(message) ==
  /\ errMsg2' = message
  /\ exitCode2' = 1
  /\ pc2' = "exit"

EnsureReady2 ==
  /\ pc2 = "ensure"
  /\ DaemonReady
  /\ pc2' = "run"
  /\ UNCHANGED <<envVars, i2, spawned2, errMsg2, exitCode2>>
  /\ Client1Only

EnsureNotFound2 ==
  /\ pc2 = "ensure"
  /\ ~DaemonReady
  /\ \E c \in SUBSET (1..NumCandidates) : daemonPath(c) = 0
  /\ MainCatch2("Daemon not found")
  /\ UNCHANGED <<envVars, i2, spawned2>>
  /\ Client1Only

\* variant of EnsureSpawn2: the spawn is skipped while another client's
\* spawn is under way
EnsureSpawn2Exclusive ==
  /\ pc2 = "ensure"
  /\ ~DaemonReady
  /\ spawned = 0
  /\ \E c \in SUBSET (1..NumCandidates) : daemonPath(c) # 0
  /\ alive' = alive \cup {NewPid2}
  /\ spawned2' = spawned2 + 1
  /\ i2' = 0
  /\ pc2' = "poll"
  /\ UNCHANGED <<pidFile, sockFile, listener, errMsg2, exitCode2>>
  /\ Client1Only

EnsureSpawn2 ==
  /\ pc2 = "ensure"
  /\ ~DaemonReady
  /\ \E c \in SUBSET (1..NumCandidates) : daemonPath(c) # 0
  /\ alive' = alive \cup {NewPid2}
  /\ spawned2' = spawned2 + 1
  /\ i2' = 0
  /\ pc2' = "poll"
  /\ UNCHANGED <<pidFile, sockFile, listener, errMsg2, exitCode2>>
  /\ Client1Only

EnsurePollFound2 ==
  /\ pc2 = "poll"
  /\ i2 < MaxPolls
  /\ sockFile
  /\ pc2' = "run"
  /\ i2' = 0
  /\ UNCHANGED <<envVars, spawned2, errMsg2, exitCode2>>
  /\ Client1Only

EnsurePollSleep2 ==
  /\ pc2 = "poll"
  /\ i2 < MaxPolls
  /\ ~sockFile
  /\ i2' = i2 + 1
  /\ UNCHANGED <<envVars, pc2, spawned2, errMsg2, exitCode2>>
  /\ Client1Only

EnsurePollFailed2 ==
  /\ pc2 = "poll"
  /\ ~(i2 < MaxPolls)
  /\ MainCatch2("Failed to start daemon")
  /\ i2' = 0
  /\ UNCHANGED <<envVars, spawned2>>
  /\ Client1Only

\* the daemon spawned by the second client binds the endpoint and writes
\* its liveness marker
DaemonListen2 ==
  /\ pc2 # "exit"
  /\ NewPid2 \in alive
  /\ listener = "none"
  /\ listener' = NewPid2
  /\ sockFile' = TRUE
  /\ pidFile' = NewPid2
  /\ UNCHANGED <<alive, raceVars>>
  /\ Client1Only

\* two clients enter ensureDaemon for one session; no daemon is running
InitRace ==
  /\ pidFile \in {"absent", "junk", OldPid}
  /\ sockFile \in BOOLEAN
  /\ alive = {}
  /\ listener = "none"
  /\ mode = "single"
  /\ commands = <<[id |-> RequestId(1)]>>
  /\ pc = "ensure"
  /\ i = 0
  /\ spawned = 0
  /\ cur = 0
  /\ sock = [k \in Ex |-> "none"]
  /\ listeners = [k \in Ex |-> FALSE]
  /\ buffer = <<>>
  /\ resolved = [k \in Ex |-> FALSE]
  /\ timer = [k \in Ex |-> "unset"]
  /\ outcome = [k \in Ex |-> Pending]
  /\ settles = [k \in Ex |-> 0]
  /\ cleanups = [k \in Ex |-> 0]
  /\ sent = <<>>
  /\ wire = <<>>
  /\ results = <<>>
  /\ hasError = FALSE
  /\ report = [success |-> FALSE, completed |-> -1, total |-> -1]
  /\ errMsg = ""
  /\ exitCode = -1
  /\ args = <<>>
  /\ cmd = Null
  /\ pc2 = "ensure"
  /\ i2 = 0
  /\ spawned2 = 0
  /\ errMsg2 = ""
  /\ exitCode2 = -1

NextRace ==
  \/ EnsureReady
  \/ EnsureNotFound
  \/ EnsureSpawn
  \/ EnsurePollFound
  \/ EnsurePollSleep
  \/ EnsurePollFailed
  \/ EnsureReady2
  \/ EnsureNotFound2
  \/ EnsureSpawn2
  \/ EnsurePollFound2
  \/ EnsurePollSleep2
  \/ EnsurePollFailed2
  \/ DaemonListen
  \/ DaemonListen2
  \/ DaemonDie

SpecRace == InitRace /\ [][NextRace]_vars

\* ================================================================= claims

Attempted(k) == sock[k] # "none"
Settled(k) == outcome[k].kind # "pending"
Failed(k) ==
  \/ outcome[k].kind = "reject"
  \/ outcome[k].kind = "resolve" /\ ~outcome[k].resp.success
Written(k) == \E n \in 1..Len(sent) : sent[n] = k
BatchFinished == mode = "batch" /\ pc = "exit" /\ cur # 0
HasNewline(s) == \E n \in 1..Len(s) : s[n] = "\n"

\* the bytes of s in front of its first newline
RECURSIVE BeforeNewline(_)
BeforeNewline(s) ==
  IF s = <<>> \/ Head(s) = "\n" THEN <<>> ELSE <<Head(s)>> \o BeforeNewline(Tail(s))

\* what an exchange must settle to when text is the one line it is given
LineOutcome(text) ==
  IF JSONParse(text).ok
    THEN Resolve(DaemonResponse(JSONParse(text).success))
    ELSE Reject("Invalid JSON response")

\* C1: in runBatch, once the exchange of request k has produced a Response
\* with success = false or has failed at the transport level, no connection
\* is opened for any request with a greater index.
C1_StopOnFirstFailure ==
  mode = "batch" =>
    \A k \in Ex : Failed(k) => \A j \in Ex : j > k => ~Attempted(j) /\ ~Written(j)

\* [A, B] where A's exchange returns success:false: B is never sent
C1_Witness ==
  /\ BatchFinished /\ Len(commands) = 2
  /\ outcome[1].kind = "resolve" /\ ~outcome[1].resp.success
  /\ ~Attempted(2)
  /\ sent = <<1>>

C3_StrictSequencing ==
  /\ \A k \in Ex : (k + 1) \in Ex /\ (Attempted(k + 1) \/ Written(k + 1)) => Settled(k)
  /\ Cardinality({k \in Ex : Attempted(k) /\ ~Settled(k)}) <= 1
  /\ \A n \in 1..Len(sent) : \A m \in 1..Len(sent) : n < m => sent[n] < sent[m]

\* the second request of a batch is on the wire and its exchange is pending
C3_Witness ==
  /\ sent = <<1, 2>>
  /\ Settled(1) /\ ~Settled(2)
  /\ sock[2] = "open"

\* C4: an exchange is resolved or rejected at most once, whatever the order
\* of the data, error and close events and the timer; once one path has
\* settled it, a later event neither resolves nor rejects.
C4_SettledAtMostOnce ==
  /\ \A k \in Ex : settles[k] <= 1
  /\ \A k \in Ex : Settled(k) <=> settles[k] = 1
  /\ \A k \in Ex : Settled(k) => resolved[k]

\* the timer of an exchange that data had resolved has fired since
C4_Witness ==
  \E k \in Ex :
    /\ outcome[k].kind = "resolve"
    /\ timer[k] = "fired"
    /\ settles[k] = 1

\* C5: whenever ensureDaemon returns successfully, a daemon is listening on
\* the session's endpoint, from every initial state of the liveness marker
\* and the endpoint file.
C5_ReturnsWithListeningDaemon ==
  [][(pc \in {"ensure", "poll"} /\ pc' = "run") => listener' # "none"]_vars

\* C6: if the connection closes while the exchange is unsettled, the exchange
\* settles at that close event, with the Response parsed from the trimmed
\* buffer when that parses and with a connection-closed error otherwise,
\* for every buffer content.
C6_CloseSettles ==
  [][\A k \in Ex :
       (sock[k] = "open" /\ sock'[k] = "closed" /\ ~Settled(k)) =>
          outcome'[k] =
            IF JSONParse(Trim(wire)).ok
              THEN Resolve(DaemonResponse(JSONParse(Trim(wire)).success))
              ELSE Reject("Connection closed")]_vars

\* C7: if the exchange is unsettled when its timer fires it is rejected with
\* a timeout error at that step and its connection is destroyed; after the
\* timer of an exchange has fired the exchange is not pending and its
\* connection is not open.
C7_TimeoutSettles ==
  /\ [][\A k \in Ex :
          (timer[k] = "armed" /\ timer'[k] = "fired" /\ ~Settled(k)) =>
             /\ outcome'[k] = Reject("Timeout")
             /\ sock'[k] \in {"closed", "destroyed"}
             /\ ~(listeners'[k])]_vars
  /\ [](\A k \in Ex :
          timer[k] = "fired" => Settled(k) /\ sock[k] \in {"closed", "destroyed"})

\* an exchange that received no bytes was rejected by its timer
C7_Witness ==
  \E k \in Ex :
    /\ k = cur /\ wire = <<>>
    /\ timer[k] = "fired"
    /\ outcome[k] = Reject("Timeout")
    /\ sock[k] = "destroyed"

\* C8: on every path that settles an exchange the connection is closed and
\* all its listeners are removed, exactly once per exchange.
C8_CleanupOncePerExchange ==
  \A k \in Ex :
    Settled(k) =>
      /\ cleanups[k] = 1
      /\ ~listeners[k]
      /\ sock[k] \in {"closed", "destroyed"}

\* C9: the outcome of an exchange that receives a newline is determined by
\* the bytes in front of the first newline alone, however they were split
\* into data events: the Response they parse to, or an invalid-response
\* error at once; later bytes and later data events change nothing.
C9_FirstLineDecides ==
  /\ [](cur \in Ex /\ HasNewline(wire) =>
          outcome[cur] = LineOutcome(BeforeNewline(wire)))
  /\ [][(cur \in Ex /\ cur' = cur /\ HasNewline(wire)) =>
          (wire' = wire /\ outcome'[cur] = outcome[cur])]_vars

\* a Response line followed by a further byte: the Response is the outcome
C9_Witness ==
  /\ cur \in Ex
  /\ wire = <<"T", "\n", "x">>
  /\ outcome[cur] = Resolve(DaemonResponse(TRUE))

\* C10: if the liveness marker names an existing process and the endpoint
\* file exists when ensureDaemon is called, ensureDaemon returns at once,
\* without spawning a process and without polling.
C10_ReadyReturnsAtOnce ==
  [][(pc = "ensure" /\ pidFile \in alive /\ sockFile /\ pc' # pc) =>
        /\ pc' = "run"
        /\ spawned' = spawned
        /\ alive' = alive
        /\ i' = i]_vars

\* ensureDaemon has returned and nothing was spawned
C10_Witness == pc = "run" /\ spawned = 0 /\ i = 0 /\ NewPid \notin alive

\* C11: if the liveness marker is missing, unparsable or names a process that
\* does not exist, ensureDaemon does not take the ready path, whether or not
\* the endpoint file exists: it goes on to locate the daemon and launch it.
C11_StaleMarkerNotReady ==
  [][(/\ pc = "ensure"
      /\ (pidFile \in {"absent", "junk"} \/ pidFile \notin alive)
      /\ pc' # pc) =>
        /\ pc' # "run"
        /\ \/ pc' = "poll" /\ spawned' = spawned + 1 /\ NewPid \in alive'
           \/ pc' = "exit" /\ errMsg' = "Daemon not found"]_vars

\* the marker names a dead process, the endpoint file is still there, and a
\* daemon has just been spawned
C11_Witness ==
  /\ pc = "poll" /\ i = 0 /\ spawned = 1
  /\ sockFile
  /\ pidFile = OldPid /\ OldPid \notin alive

\* C12: after launching the daemon ensureDaemon terminates: every turn of the
\* poll loop returns (endpoint found), or counts one failed check, or (after
\* 50 failed checks) fails with an error; the count never exceeds 50, and
\* after the loop is left there is no further poll and no further spawn.
C12_BoundedPoll ==
  /\ [](pc = "poll" => i \in 0..MaxPolls /\ spawned = 1)
  /\ [][(pc = "poll" /\ (pc' # pc \/ i' # i)) =>
          \/ i < MaxPolls /\ sockFile /\ pc' = "run"
          \/ i < MaxPolls /\ ~sockFile /\ pc' = "poll" /\ i' = i + 1
          \/ /\ i = MaxPolls
             /\ pc' = "exit" /\ exitCode' = 1
             /\ errMsg' = "Failed to start daemon"]_vars
  /\ [][pc \notin {"ensure", "poll"} =>
          (pc' \notin {"ensure", "poll"} /\ spawned' = spawned)]_vars

\* none of the 50 checks found the endpoint
C12_Witness ==
  /\ pc = "exit" /\ exitCode = 1
  /\ errMsg = "Failed to start daemon"
  /\ spawned = 1 /\ ~sockFile

\* C18: if ensureDaemon fails, the client opens no connection and writes no
\* request, reports the error and exits with code 1; when the entry point is
\* not found, no process is spawned.
C18_EnsureFailureIsFinal ==
  /\ errMsg \in {"Daemon not found", "Failed to start daemon"} =>
       /\ pc = "exit" /\ exitCode = 1
       /\ \A k \in Ex : ~Attempted(k)
       /\ sent = <<>>
  /\ errMsg = "Daemon not found" => spawned = 0 /\ NewPid \notin alive
  /\ pc \in {"ensure", "poll"} => cur = 0 /\ \A k \in Ex : ~Attempted(k)

\* the entry point was not found
C18_Witness ==
  /\ pc = "exit" /\ exitCode = 1
  /\ errMsg = "Daemon not found"
  /\ spawned = 0

\* C19: when an exchange inside runBatch fails at the transport level, the
\* last entry of results is a Response with the id of the request that
\* failed, success = false and the failure's message as error; it is counted
\* in completed, and every earlier entry has success = true.
C19_SynthesizedFailure ==
  (BatchFinished /\ outcome[cur].kind = "reject") =>
     /\ Len(results) = cur
     /\ results[cur] =
          [id |-> commands[cur].id, success |-> FALSE, error |-> outcome[cur].err]
     /\ outcome[cur].err \in
          {"Timeout", "Invalid JSON response", "Connection closed", "socket error"}
     /\ report.completed = Len(results)
     /\ \A n \in 1..(cur - 1) : results[n].success

\* the second request of a batch timed out after the first had succeeded
C19_Witness ==
  /\ BatchFinished /\ cur = 2
  /\ outcome[2] = Reject("Timeout")
  /\ results[1].success
  /\ results[2] = [id |-> RequestId(2), success |-> FALSE, error |-> "Timeout"]

\* C20: the timer of an exchange is never cancelled; when it fires after its
\* exchange has settled, it resolves and rejects nothing, does not call
\* cleanup, and leaves every connection and every outcome as they were.
C20_LateTimerHasNoEffect ==
  /\ [][\A k \in Ex : timer[k] = "armed" => timer'[k] \in {"armed", "fired"}]_vars
  /\ [][\A k \in Ex :
          (timer[k] = "armed" /\ timer'[k] = "fired" /\ Settled(k)) =>
             /\ outcome' = outcome
             /\ settles' = settles
             /\ cleanups' = cleanups
             /\ sock' = sock
             /\ listeners' = listeners
             /\ resolved' = resolved
             /\ buffer' = buffer
             /\ pc' = pc
             /\ results' = results]_vars

\* the timer of the first exchange has fired while the second is pending
C20_Witness ==
  /\ cur = 2 /\ ~Settled(2) /\ sock[2] = "open"
  /\ timer[1] = "fired" /\ timer[2] = "armed"
  /\ outcome[1] = Resolve(DaemonResponse(TRUE))

\* a command string whose verb encodes
Encodes(str) == parseCommand(cleanParts(str), 0) # Null

\* the command line names batch mode
BatchGiven == ~WantsHelp(args) /\ cleanArgs(args)[1] = W("batch")

\* the command line names single-command mode
SingleGiven == ~WantsHelp(args) /\ cleanArgs(args)[1] # W("batch")

\* an exchange that was started failed, or main's catch ran
RunFailed ==
  \/ errMsg # ""
  \/ \E k \in Ex : Attempted(k) /\ Failed(k)

\* C13 (as stated): a finished invocation has exit code 1 exactly when
\* something failed, an unknown command in single-command mode or in one of
\* the command strings of a batch included, and exit code 0 otherwise.
C13_ExitOneOnAnyFailure ==
  pc = "exit" =>
    /\ exitCode \in {0, 1}
    /\ exitCode = 1 <=>
         \/ SingleGiven /\ parseCommand(cleanArgs(args), 0) = Null
         \/ BatchGiven /\ batchArgs(args) = <<>>
         \/ BatchGiven /\ \E n \in 1..Len(batchArgs(args)) :
                            ~Encodes(batchArgs(args)[n])
         \/ RunFailed

\* C13 (amended): a finished invocation has exit code 1 exactly when the
\* command of single-command mode is unknown, the batch has no command
\* string that encodes, daemon start or the transport failed, or a Response
\* has success = false; a batch command string that fails to encode next to
\* one that encodes is dropped and does not change the exit code.
C13_ExitCodes ==
  pc = "exit" =>
    /\ exitCode \in {0, 1}
    /\ exitCode = 1 <=>
         \/ SingleGiven /\ parseCommand(cleanArgs(args), 0) = Null
         \/ BatchGiven /\ \A n \in 1..Len(batchArgs(args)) :
                            ~Encodes(batchArgs(args)[n])
         \/ RunFailed

\* a batch with a dropped command string has run to the end and exits with 0
C13_Witness ==
  /\ pc = "exit"
  /\ exitCode = 0
  /\ mode = "batch"
  /\ Len(commands) < Len(batchArgs(args))
  /\ report.success

\* the short form of a snapshot flag
ShortForm(w) ==
  CASE w = <<"--", "interactive">> -> W("-i")
    [] w = <<"--", "compact">> -> W("-c")
    [] w = <<"--", "depth">> -> W("-d")
    [] w = <<"--", "selector">> -> W("-s")
    [] OTHER -> w

ShortForms(a) == [n \in 1..Len(a) |-> ShortForm(a[n])]

\* C14: in single-command mode the Request of a snapshot command line is
\* the Request of the same command line with every long-form flag replaced
\* by its short form.
C14_LongFlagsAsShort ==
  (mode = "single" /\ cmd.action = "snapshot") =>
    cmd = parseCommand(cleanArgs(ShortForms(args)), cmd.id)

\* the argument carries an http:// or https:// scheme
HasScheme(arg) ==
  \/ StartsWith(arg, <<"http", "://">>)
  \/ StartsWith(arg, <<"http", "s://">>)

\* C15: the url of a navigate Request is the argument itself when the
\* argument carries an http:// or https:// scheme, and "https://" followed
\* by the argument for every other argument.
C15_BareHostPrefixed ==
  (mode = "single" /\ cmd.action = "navigate" /\ Len(cleanArgs(args)) >= 2) =>
    LET arg == cleanArgs(args)[2]
    IN cmd.url = IF HasScheme(arg) THEN arg ELSE HttpsPrefix \o arg

\* C16: the commands of batch mode are the Requests of the command strings
\* that encode, one each, in the order of the command line; the strings that
\* do not encode leave no trace.
C16_BatchKeepsOrderDropsUnknown ==
  (pc # "main" /\ BatchGiven) =>
    LET kept == SelectSeq(batchArgs(args), Encodes)
    IN /\ kept # <<>> => mode = "batch"
       /\ Len(commands) = Len(kept)
       /\ \A n \in 1..Len(kept) :
            commands[n] = parseCommand(cleanParts(kept[n]), commands[n].id)
       /\ \A m, n \in 1..Len(commands) : m # n => commands[m].id # commands[n].id

\* a string that does not encode stood before one that does
C16_Witness ==
  /\ mode = "batch"
  /\ Len(batchArgs(args)) = 2
  /\ ~Encodes(batchArgs(args)[1])
  /\ Encodes(batchArgs(args)[2])
  /\ Len(commands) = 1
  /\ commands[1].action = "navigate"

\* C17: a client at the liveness check that finds the daemon not ready can
\* spawn, whatever the other client has done, a spawn of its own included:
\* nothing in the check and the spawn-and-poll sequence excludes a second
\* spawn for the session.
C17_SecondSpawnNotExcluded ==
  /\ (pc2 = "ensure" /\ ~DaemonReady) => ENABLED EnsureSpawn2
  /\ (pc = "ensure" /\ ~DaemonReady) => ENABLED EnsureSpawn
  /\ spawned <= 1
  /\ spawned2 <= 1

\* both clients observed "not running" and both spawned a daemon
C17_Witness ==
  /\ spawned = 1
  /\ spawned2 = 1
  /\ {NewPid, NewPid2} \subseteq alive
  /\ pc = "poll"
  /\ pc2 = "poll"

====
